---- MODULE Spec2Model ----
(***************************************************************************)
(* Show-schedule matching of the EdenFM dashboard: isShowOnAir, as it is   *)
(* written in the registration analytics view and in the request analytics *)
(* view.                                                                   *)
(*                                                                         *)
(* Strings.  A day descriptor is a sequence of lexemes: ",", " ", "-" and  *)
(* words (maximal runs of other characters, never two words in a row).     *)
(* The code only splits descriptors on "," and "-", trims blanks and       *)
(* compares whole tokens with keys, so nothing below the lexeme matters.   *)
(* A time string is a sequence of characters over digits, ":", "h", " "    *)
(* and "a" (a character that is part of no numeric literal).               *)
(* A show is a record; an absent property is an absent field.              *)
(***************************************************************************)
EXTENDS Integers, Sequences, FiniteSets, TLC

VARIABLES show, date, pc, scheduledDays, result,
          remembered      \* history: an earlier call, its arguments and result

\* The per-show aggregation of the analytics views.
VARIABLES schedule,       \* the TimeSlots rows, in list order
          registrations,  \* the timestamped records
          processed,      \* how many records forEach has gone through
          regsPerShow,    \* own properties of the counting object
          matched         \* history: per record gone through, the index of
                          \* the entry it was counted for, 0 for none

analyticsVars == <<schedule, registrations, processed, regsPerShow, matched>>

\* The data table with its edit window.
VARIABLES sheetName,      \* the sheet the table shows
          data,           \* the rows loaded from the sheet
          currentRow,     \* <<>> for null, <<row>> for the row in the window
          isModalOpen,    \* the edit window is shown
          modalError,     \* the edit window shows a failure message
          payload,        \* what the last save of this row handed to the backend
          request,        \* the backend call of that save, "none" without one
          savedRow        \* history: currentRow when that save began

dataTableVars ==
    <<sheetName, data, currentRow, isModalOpen, modalError, payload, request,
      savedRow>>

\* The day selector of the edit window.
VARIABLES selectorValue,  \* the value prop the parent renders it with
          reported,       \* what the last toggle handed to onChange
          toggles         \* history: the last toggles, at most two, each with
                          \* its day and the selectedDays it found

selectorVars == <<selectorValue, reported, toggles>>

\* The dashboard with its admin lock.
VARIABLES activeView, viewPayload, isAdminUnlocked, showAdminModal, password,
          passwordError, destinationView,
          lastEvent       \* history: the handler that ran last, with its input

dashboardVars ==
    <<activeView, viewPayload, isAdminUnlocked, showAdminModal, password,
      passwordError, destinationView, lastEvent>>

\* The agent tester with its sessions.
VARIABLES sessionMemory,    \* the Map, as a function on the ids it has
          activeTestUserId,
          testUserInput,
          isThinking,
          inFlight,         \* the pending calls of getWhatsappAgentResponse,
                            \* each with the user id its closure holds
          clock,            \* what Date.now() returns, in ms
          sends,            \* how many messages have been sent
          agentEvent        \* history: the handler or callback that ran last

agentVars ==
    <<sessionMemory, activeTestUserId, testUserInput, isThinking, inFlight,
      clock, sends, agentEvent>>

\* The components other than the matcher, the aggregation and the table.
restVars == <<selectorVars, dashboardVars, agentVars>>

vars == <<show, date, pc, scheduledDays, result, remembered, analyticsVars,
          dataTableVars, restVars>>

(***************************************************************************)
(* String primitives of the runtime, on sequences.                         *)
(***************************************************************************)
RECURSIVE Split(_, _)
Split(s, sep) ==
    IF s = <<>> THEN << <<>> >>
    ELSE LET rest == Split(Tail(s), sep)
         IN  IF Head(s) = sep
             THEN << <<>> >> \o rest
             ELSE << <<Head(s)>> \o Head(rest) >> \o Tail(rest)

RECURSIVE TrimStart(_)
TrimStart(s) == IF s # <<>> /\ Head(s) = " " THEN TrimStart(Tail(s)) ELSE s

RECURSIVE TrimEnd(_)
TrimEnd(s) ==
    IF s # <<>> /\ s[Len(s)] = " " THEN TrimEnd(SubSeq(s, 1, Len(s) - 1)) ELSE s

Trim(s) == TrimEnd(TrimStart(s))

Includes(s, c) == \E i \in 1..Len(s) : s[i] = c

\* String.prototype.replace with a string pattern: the first occurrence only.
RECURSIVE ReplaceFirst(_, _, _)
ReplaceFirst(s, a, b) ==
    IF s = <<>> THEN <<>>
    ELSE IF Head(s) = a THEN <<b>> \o Tail(s)
    ELSE <<Head(s)>> \o ReplaceFirst(Tail(s), a, b)

\* parts.map(p => p.trim()).filter(Boolean)
RECURSIVE TrimAndFilter(_)
TrimAndFilter(ps) ==
    IF ps = <<>> THEN <<>>
    ELSE LET t == Trim(Head(ps))
         IN  (IF t = <<>> THEN <<>> ELSE <<t>>) \o TrimAndFilter(Tail(ps))

(***************************************************************************)
(* Day tables.                                                             *)
(***************************************************************************)
dayOrderArray == <<"Mon", "Tue", "Wed", "Thu", "Fri", "Sat", "Sun">>

fullDaysOfWeek ==
    <<"Monday", "Tuesday", "Wednesday", "Thursday", "Friday", "Saturday", "Sunday">>

\* Index: Date.getDay() + 1 (getDay() is 0 for Sunday).
dayFullNameMap ==
    <<"Sunday", "Monday", "Tuesday", "Wednesday", "Thursday", "Friday", "Saturday">>

\* Property names every object literal inherits from Object.prototype; the
\* model carries two of them.
ObjectPrototypeKeys == {"constructor", "toString"}

\* What reading an inherited property yields: a function object, which is
\* truthy and equal to no string.
InheritedValue(k) == "function:" \o k

\* Array.prototype.indexOf on an array of words: 0-based, -1 when absent.
IndexOf(arr, str) ==
    IF \E i \in 1..Len(arr) : <<arr[i]>> = str
    THEN (CHOOSE i \in 1..Len(arr) : <<arr[i]>> = str) - 1
    ELSE -1

\* shortDayToFull[key] is truthy.
shortDayToFullHas(key) ==
    /\ Len(key) = 1
    /\ \/ IndexOf(dayOrderArray, key) > -1
       \/ key[1] \in ObjectPrototypeKeys

\* shortDayToFull[key], for a key on which it is truthy.
shortDayToFull(key) ==
    IF IndexOf(dayOrderArray, key) > -1
    THEN fullDaysOfWeek[IndexOf(dayOrderArray, key) + 1]
    ELSE InheritedValue(key[1])

\* Variant: the loop stops before endIndex.
RangeDays_EndExclusive(startIndex, endIndex) ==
    IF startIndex > -1 /\ endIndex > -1 /\ startIndex <= endIndex
    THEN { shortDayToFull(<<dayOrderArray[i + 1]>>) : i \in startIndex..(endIndex - 1) }
    ELSE {}

\* Variant: a range whose start lies after its end wraps around the week.
RangeDays_Wrapping(startIndex, endIndex) ==
    IF startIndex > -1 /\ endIndex > -1
    THEN { shortDayToFull(<<dayOrderArray[i + 1]>>) :
              i \in IF startIndex <= endIndex
                    THEN startIndex..endIndex
                    ELSE (startIndex..6) \cup (0..endIndex) }
    ELSE {}

\* for (let i = startIndex; i <= endIndex; i++) scheduledDays.add(...)
RangeDays(startIndex, endIndex) ==
    IF startIndex > -1 /\ endIndex > -1 /\ startIndex <= endIndex
    THEN { shortDayToFull(<<dayOrderArray[i + 1]>>) : i \in startIndex..endIndex }
    ELSE {}

\* One iteration of the loop over parts: the days one token adds.
PartDays(part) ==
    IF Includes(part, "-")
    THEN LET pieces == Split(part, "-")
         IN  RangeDays(IndexOf(dayOrderArray, pieces[1]),
                       IndexOf(dayOrderArray, pieces[2]))
    ELSE IF shortDayToFullHas(part) THEN {shortDayToFull(part)}
    ELSE IF IndexOf(fullDaysOfWeek, part) > -1 THEN {part[1]}
    ELSE {}

RECURSIVE AddParts(_, _)
AddParts(parts, days) ==
    IF parts = <<>> THEN days
    ELSE AddParts(Tail(parts), days \cup PartDays(Head(parts)))

\* Variant: one set shared by all calls, holding what the last call left.
NewSet_Shared == scheduledDays

\* new Set<string>(): every call starts from a set of its own.
NewSet == {}

\* The set scheduledDays built from the day string.
ResolveDays(formattedDayString) ==
    AddParts(TrimAndFilter(Split(formattedDayString, ",")), NewSet)

(***************************************************************************)
(* Time parsing.                                                           *)
(***************************************************************************)
Digits == {"0", "1", "2", "3", "4", "5", "6", "7", "8", "9"}

DigitVal(c) == CASE c = "0" -> 0 [] c = "1" -> 1 [] c = "2" -> 2 [] c = "3" -> 3
                 [] c = "4" -> 4 [] c = "5" -> 5 [] c = "6" -> 6 [] c = "7" -> 7
                 [] c = "8" -> 8 [] c = "9" -> 9

RECURSIVE DecimalVal(_)
DecimalVal(s) ==
    IF s = <<>> THEN 0
    ELSE 10 * DecimalVal(SubSeq(s, 1, Len(s) - 1)) + DigitVal(s[Len(s)])

\* !isNaN(Number(s)) on the time alphabet: blanks around the literal are
\* ignored, the empty literal is a number.
IsNumber(s) == \A i \in 1..Len(Trim(s)) : Trim(s)[i] \in Digits

\* Number(s) where it is not NaN; Number("") and Number(" ") are 0.
NumberOf(s) == DecimalVal(Trim(s))

\* Variant: the time is split on ":" without the "h" being replaced.
TimeParts_ColonOnly(timeValue) == Split(timeValue, ":")

\* String(v).replace('h', ':').split(':')
TimeParts(timeValue) == Split(ReplaceFirst(timeValue, "h", ":"), ":")

\* isNaN(H) || isNaN(M) after [H, M] = parts.map(Number); a missing second
\* element is undefined, and isNaN(undefined) is true.
TimeIsNaN(timeValue) ==
    LET parts == TimeParts(timeValue)
    IN  \/ ~IsNumber(parts[1])
        \/ Len(parts) < 2
        \/ ~IsNumber(parts[2])

\* H * 60 + M
TimeMinutes(timeValue) ==
    LET parts == TimeParts(timeValue)
    IN  NumberOf(parts[1]) * 60 + NumberOf(parts[2])

(***************************************************************************)
(* isShowOnAir.                                                            *)
(***************************************************************************)
\* Variant: || in place of ??, so that an empty Day falls through to the
\* compact field.
formattedDayString_OrFallback(s) ==
    IF "Day" \in DOMAIN s /\ s.Day # <<>> THEN s.Day
    ELSE IF "DaysOfWeek" \in DOMAIN s THEN s.DaysOfWeek
    ELSE <<>>

\* String(show.Day ?? show['Day(s) of Week'] ?? '')
formattedDayString(s) ==
    IF "Day" \in DOMAIN s THEN s.Day
    ELSE IF "DaysOfWeek" \in DOMAIN s THEN s.DaysOfWeek
    ELSE <<>>

\* !formattedDayString || !startTimeValue || !endTimeValue
MissingField(s) ==
    \/ formattedDayString(s) = <<>>
    \/ "Start" \notin DOMAIN s
    \/ s.Start = <<>>
    \/ "End" \notin DOMAIN s
    \/ s.End = <<>>

currentDayName(d) == dayFullNameMap[d.day + 1]

\* Variant: the previous day taken as (getDay() - 1) % 7, which is -1 on a
\* Sunday and finds no name.
previousDayName_NoWrap(d) ==
    IF d.day = 0 THEN "undefined" ELSE dayFullNameMap[d.day]

previousDayName(d) == dayFullNameMap[((d.day + 6) % 7) + 1]

currentTime(d) == d.hours * 60 + d.minutes

\* Variant: both halves of an overnight slot looked up under the current day.
OvernightOnAir_SameDayLookup(days, d, startTime, endTime) ==
    currentDayName(d) \in days
        /\ (currentTime(d) >= startTime \/ currentTime(d) < endTime)

\* Variant: the end minute of an overnight slot belongs to the slot.
OvernightOnAir_EndInclusive(days, d, startTime, endTime) ==
    \/ currentDayName(d) \in days /\ currentTime(d) >= startTime
    \/ previousDayName(d) \in days /\ currentTime(d) <= endTime

OvernightOnAir(days, d, startTime, endTime) ==
    LET isAfterStartTimeOnStartDay ==
            currentDayName(d) \in days /\ currentTime(d) >= startTime
        isBeforeEndTimeOnNextDay ==
            previousDayName(d) \in days /\ currentTime(d) < endTime
    IN  isAfterStartTimeOnStartDay \/ isBeforeEndTimeOnNextDay

\* Variant: the end minute of a same-day slot belongs to the slot.
SameDayOnAir_EndInclusive(days, d, startTime, endTime) ==
    currentDayName(d) \in days /\ currentTime(d) >= startTime
                               /\ currentTime(d) <= endTime

\* Variant: the start minute of a same-day slot does not belong to it.
SameDayOnAir_StartExclusive(days, d, startTime, endTime) ==
    currentDayName(d) \in days /\ currentTime(d) > startTime
                               /\ currentTime(d) < endTime

SameDayOnAir(days, d, startTime, endTime) ==
    currentDayName(d) \in days /\ currentTime(d) >= startTime
                               /\ currentTime(d) < endTime

\* Variant: a missing time defaults to the edge of the day instead of
\* ending the call.
isShowOnAir_DefaultTimes(s, d) ==
    IF formattedDayString(s) = <<>> THEN FALSE
    ELSE LET days == ResolveDays(formattedDayString(s))
             startTime == IF "Start" \notin DOMAIN s \/ s.Start = <<>>
                          THEN 0 ELSE TimeMinutes(s.Start)
             endTime == IF "End" \notin DOMAIN s \/ s.End = <<>>
                        THEN 1440 ELSE TimeMinutes(s.End)
         IN  IF endTime < startTime
             THEN OvernightOnAir(days, d, startTime, endTime)
             ELSE SameDayOnAir(days, d, startTime, endTime)

isShowOnAir(s, d) ==
    IF MissingField(s) THEN FALSE
    ELSE LET days == ResolveDays(formattedDayString(s))
         IN  IF TimeIsNaN(s.Start) THEN FALSE
             ELSE IF TimeIsNaN(s.End) THEN FALSE
             ELSE LET startTime == TimeMinutes(s.Start)
                      endTime == TimeMinutes(s.End)
                      crossesMidnight == endTime < startTime
                  IN  IF crossesMidnight
                      THEN OvernightOnAir(days, d, startTime, endTime)
                      ELSE SameDayOnAir(days, d, startTime, endTime)

\* The set the call has built when it returns (none before the field check).
scheduledDaysOf(s) ==
    IF MissingField(s) THEN {} ELSE ResolveDays(formattedDayString(s))

(***************************************************************************)
(* isShowOnAir of the request analytics view, with the tables of its file. *)
(***************************************************************************)
dayOrderArrayRequests == <<"Mon", "Tue", "Wed", "Thu", "Fri", "Sat", "Sun">>

fullDaysOfWeekRequests ==
    <<"Monday", "Tuesday", "Wednesday", "Thursday", "Friday", "Saturday", "Sunday">>

\* Index: Date.getDay() + 1.
dayFullNameMapRequests ==
    <<"Sunday", "Monday", "Tuesday", "Wednesday", "Thursday", "Friday", "Saturday">>

\* shortDayToFull[key] of that file is truthy.
shortDayToFullRequestsHas(key) ==
    /\ Len(key) = 1
    /\ key[1] \in {"Mon", "Tue", "Wed", "Thu", "Fri", "Sat", "Sun"} \cup ObjectPrototypeKeys

\* shortDayToFull[key] of that file, where truthy.
shortDayToFullRequests(key) ==
    CASE key[1] = "Mon" -> "Monday" [] key[1] = "Tue" -> "Tuesday"
      [] key[1] = "Wed" -> "Wednesday" [] key[1] = "Thu" -> "Thursday"
      [] key[1] = "Fri" -> "Friday" [] key[1] = "Sat" -> "Saturday"
      [] key[1] = "Sun" -> "Sunday"
      [] OTHER -> InheritedValue(key[1])

\* The body of the loop over parts.
PartDaysRequests(part) ==
    IF Includes(part, "-")
    THEN LET startShort == Split(part, "-")[1]
             endShort == Split(part, "-")[2]
             startIndex == IndexOf(dayOrderArrayRequests, startShort)
             endIndex == IndexOf(dayOrderArrayRequests, endShort)
         IN  IF startIndex > -1 /\ endIndex > -1 /\ startIndex <= endIndex
             THEN { shortDayToFullRequests(<<dayOrderArrayRequests[i + 1]>>) :
                       i \in startIndex..endIndex }
             ELSE {}
    ELSE IF shortDayToFullRequestsHas(part) THEN {shortDayToFullRequests(part)}
    ELSE IF IndexOf(fullDaysOfWeekRequests, part) > -1 THEN {part[1]}
    ELSE {}

RECURSIVE AddPartsRequests(_, _)
AddPartsRequests(parts, days) ==
    IF parts = <<>> THEN days
    ELSE AddPartsRequests(Tail(parts), days \cup PartDaysRequests(Head(parts)))

\* Variant: this copy still counts the end minute of a same-day slot.
SameDayOnAirRequests_EndInclusive(days, d, startTime, endTime) ==
    /\ dayFullNameMapRequests[d.day + 1] \in days
    /\ d.hours * 60 + d.minutes >= startTime
    /\ d.hours * 60 + d.minutes <= endTime

\* The return of the same-day branch.
SameDayOnAirRequests(days, d, startTime, endTime) ==
    /\ dayFullNameMapRequests[d.day + 1] \in days
    /\ d.hours * 60 + d.minutes >= startTime
    /\ d.hours * 60 + d.minutes < endTime

isShowOnAirRequests(s, d) ==
    LET formatted == IF "Day" \in DOMAIN s THEN s.Day
                     ELSE IF "DaysOfWeek" \in DOMAIN s THEN s.DaysOfWeek
                     ELSE <<>>
    IN  IF \/ formatted = <<>>
           \/ "Start" \notin DOMAIN s \/ s.Start = <<>>
           \/ "End" \notin DOMAIN s \/ s.End = <<>>
        THEN FALSE
        ELSE
        LET days == AddPartsRequests(TrimAndFilter(Split(formatted, ",")), {})
            currentDay == dayFullNameMapRequests[d.day + 1]
            previousDay == dayFullNameMapRequests[((d.day + 6) % 7) + 1]
            startParts == Split(ReplaceFirst(s.Start, "h", ":"), ":")
            endParts == Split(ReplaceFirst(s.End, "h", ":"), ":")
        IN  IF ~IsNumber(startParts[1]) \/ Len(startParts) < 2 \/ ~IsNumber(startParts[2])
            THEN FALSE
            ELSE IF ~IsNumber(endParts[1]) \/ Len(endParts) < 2 \/ ~IsNumber(endParts[2])
            THEN FALSE
            ELSE
            LET startTime == NumberOf(startParts[1]) * 60 + NumberOf(startParts[2])
                endTime == NumberOf(endParts[1]) * 60 + NumberOf(endParts[2])
                now == d.hours * 60 + d.minutes
            IN  IF endTime < startTime
                THEN \/ currentDay \in days /\ now >= startTime
                     \/ previousDay \in days /\ now < endTime
                ELSE SameDayOnAirRequests(days, d, startTime, endTime)

(***************************************************************************)
(* normaliseDaysForSelector of the data table, with the tables of its file.*)
(***************************************************************************)
dayOrderArraySelector == <<"Mon", "Tue", "Wed", "Thu", "Fri", "Sat", "Sun">>

fullDaysOfWeekSelector ==
    <<"Monday", "Tuesday", "Wednesday", "Thursday", "Friday", "Saturday", "Sunday">>

\* shortDayToFull[key] of that file is truthy.
shortDayToFullSelectorHas(key) ==
    /\ Len(key) = 1
    /\ key[1] \in {"Mon", "Tue", "Wed", "Thu", "Fri", "Sat", "Sun"} \cup ObjectPrototypeKeys

\* shortDayToFull[key] of that file, where truthy.
shortDayToFullSelector(key) ==
    CASE key[1] = "Mon" -> "Monday" [] key[1] = "Tue" -> "Tuesday"
      [] key[1] = "Wed" -> "Wednesday" [] key[1] = "Thu" -> "Thursday"
      [] key[1] = "Fri" -> "Friday" [] key[1] = "Sat" -> "Saturday"
      [] key[1] = "Sun" -> "Sunday"
      [] OTHER -> InheritedValue(key[1])

\* The letters of a word of the model's vocabulary, in lower case (the
\* pattern is matched with the flag i).
LowerSpelling(w) ==
    CASE w = "Mon" -> <<"m", "o", "n">>
      [] w = "Tue" -> <<"t", "u", "e">>
      [] w = "Wed" -> <<"w", "e", "d">>
      [] w = "Thu" -> <<"t", "h", "u">>
      [] w = "Fri" -> <<"f", "r", "i">>
      [] w = "Sat" -> <<"s", "a", "t">>
      [] w = "Sun" -> <<"s", "u", "n">>
      [] w = "Monday" -> <<"m", "o", "n", "d", "a", "y">>
      [] w = "Tuesday" -> <<"t", "u", "e", "s", "d", "a", "y">>
      [] w = "Wednesday" -> <<"w", "e", "d", "n", "e", "s", "d", "a", "y">>
      [] w = "Thursday" -> <<"t", "h", "u", "r", "s", "d", "a", "y">>
      [] w = "Friday" -> <<"f", "r", "i", "d", "a", "y">>
      [] w = "Saturday" -> <<"s", "a", "t", "u", "r", "d", "a", "y">>
      [] w = "Sunday" -> <<"s", "u", "n", "d", "a", "y">>
      [] w = "mon" -> <<"m", "o", "n">>
      [] w = "Foo" -> <<"f", "o", "o">>
      [] w = "constructor" ->
            <<"c", "o", "n", "s", "t", "r", "u", "c", "t", "o", "r">>
      [] w = "toString" -> <<"t", "o", "s", "t", "r", "i", "n", "g">>

HasSubstring(s, pat) ==
    \E i \in 1..(Len(s) - Len(pat) + 1) : SubSeq(s, i, i + Len(pat) - 1) = pat

looksCompressed_WholeTokens(trimmed) ==
    \E i \in 1..Len(trimmed) :
        \/ trimmed[i] = "-"
        \/ \E k \in 1..7 : trimmed[i] = dayOrderArraySelector[k]

\* /(Mon|Tue|Wed|Thu|Fri|Sat|Sun|-)/i.test(trimmed)
looksCompressed(trimmed) ==
    \E i \in 1..Len(trimmed) :
        \/ trimmed[i] = "-"
        \/ /\ trimmed[i] \notin {",", " "}
           /\ \E k \in 1..7 :
                 HasSubstring(LowerSpelling(trimmed[i]),
                              LowerSpelling(dayOrderArraySelector[k]))

\* The body of the loop over parts.
PartDaysSelector(part) ==
    IF Includes(part, "-")
    THEN LET startIndex == IndexOf(dayOrderArraySelector, Split(part, "-")[1])
             endIndex == IndexOf(dayOrderArraySelector, Split(part, "-")[2])
         IN  IF startIndex > -1 /\ endIndex > -1 /\ startIndex <= endIndex
             THEN { shortDayToFullSelector(<<dayOrderArraySelector[i + 1]>>) :
                       i \in startIndex..endIndex }
             ELSE {}
    ELSE IF shortDayToFullSelectorHas(part) THEN {shortDayToFullSelector(part)}
    ELSE IF IndexOf(fullDaysOfWeekSelector, part) > -1 THEN {part[1]}
    ELSE {}

RECURSIVE AddPartsSelector(_, _)
AddPartsSelector(parts, fullDays) ==
    IF parts = <<>> THEN fullDays
    ELSE AddPartsSelector(Tail(parts), fullDays \cup PartDaysSelector(Head(parts)))

\* fullDaysOfWeek.filter(day => fullDays.has(day)), from index i on.
RECURSIVE SortedFullDays(_, _)
SortedFullDays(fullDays, i) ==
    IF i > Len(fullDaysOfWeekSelector) THEN <<>>
    ELSE (IF fullDaysOfWeekSelector[i] \in fullDays
          THEN <<fullDaysOfWeekSelector[i]>> ELSE <<>>)
            \o SortedFullDays(fullDays, i + 1)

\* names.join(', ')
RECURSIVE JoinCommaSpace(_)
JoinCommaSpace(names) ==
    IF names = <<>> THEN <<>>
    ELSE IF Len(names) = 1 THEN <<names[1]>>
    ELSE <<names[1], ",", " ">> \o JoinCommaSpace(Tail(names))

normaliseDaysForSelector(raw) ==
    IF raw = <<>> THEN <<>>
    ELSE LET trimmed == Trim(raw)
         IN  IF trimmed = <<>> THEN <<>>
             ELSE IF ~looksCompressed(trimmed) THEN trimmed
             ELSE JoinCommaSpace(SortedFullDays(
                     AddPartsSelector(TrimAndFilter(Split(trimmed, ",")), {}), 1))

(***************************************************************************)
(* Inputs.                                                                 *)
(***************************************************************************)
\* Most tokens of a generated day descriptor.
MaxTokens == 2

Clock(h, sep, m) == h \o <<sep>> \o m

HourStrings == {<<"0", "0">>, <<"0", "2">>, <<"0", "9">>, <<"1", "2">>, <<"2", "2">>}

MinuteStrings == {<<"0", "0">>, <<"3", "0">>}

\* Well-formed clock times, "HH:MM" and "HHhMM".
ClockStrings ==
    { Clock(h, ":", m) : h \in HourStrings, m \in MinuteStrings }
        \cup { Clock(<<"0", "9">>, "h", <<"0", "0">>),
               Clock(<<"1", "2">>, "h", <<"0", "0">>) }

\* Time values a sheet cell can hold that are not clock times:
\* "", "a", "9", "9:", ":", "h", "09:0a", "9h30h", " 9: 30", "09:00:30".
OddTimeStrings ==
    { <<>>, <<"a">>, <<"9">>, <<"9", ":">>, <<":">>, <<"h">>,
      <<"0", "9", ":", "0", "a">>, <<"9", "h", "3", "0", "h">>,
      <<" ", "9", ":", " ", "3", "0">>,
      <<"0", "9", ":", "0", "0", ":", "3", "0">> }

FewClockStrings ==
    { Clock(<<"0", "9">>, ":", <<"0", "0">>), Clock(<<"1", "2">>, ":", <<"0", "0">>),
      Clock(<<"2", "2">>, ":", <<"0", "0">>), Clock(<<"0", "2">>, ":", <<"0", "0">>) }

\* A point in time, as the Date getters report it.
PointAt(day, minuteOfDay) ==
    [day |-> day, hours |-> minuteOfDay \div 60, minutes |-> minuteOfDay % 60]

\* Minutes of the day at and just before every clock time, and the minutes
\* 01:30, 03:00 and 23:59.
BoundaryMinutes ==
    ({ TimeMinutes(Clock(h, ":", m)) : h \in HourStrings, m \in MinuteStrings }
        \cup { TimeMinutes(Clock(h, ":", m)) - 1 : h \in HourStrings, m \in MinuteStrings }
        \cup {90, 180, 1439}) \cap (0..1439)

TimePoints == { PointAt(d, m) : d \in 0..6, m \in BoundaryMinutes }

FewPoints == { PointAt(d, m) : d \in 0..6, m \in {60, 600, 1380} }

\* "Monday", "Fri-Sat", "Sun", "Saturday", "Sat-Mon", "Mon-Wed, Friday"
DayFieldsForTimes ==
    { [Day |-> <<"Monday">>],
      [DaysOfWeek |-> <<"Fri", "-", "Sat">>],
      [Day |-> <<"Sun">>],
      [Day |-> <<"Saturday">>],
      [DaysOfWeek |-> <<"Sat", "-", "Mon">>],
      [Day |-> <<"Mon", "-", "Wed", ",", " ", "Friday">>, DaysOfWeek |-> <<"Sat">>] }

\* Tokens of generated descriptors, as they stand between the commas.
RawTokens ==
    { <<"Mon">>, <<"Sun">>, <<"Monday">>, <<" ", "Friday">>,
      <<"Mon", "-", "Wed">>, <<"Fri", "-", "Sat">>, <<"Thu", "-", "Thu">>,
      <<"Wed", "-", "Mon">>, <<"Sat", "-", "Mon">>,
      <<"Mon", " ", "-", " ", "Wed">>, <<"Monday", "-", "Wednesday">>,
      <<"Foo">>, <<"mon">>, <<"constructor">>, <<>> }

RECURSIVE JoinComma(_)
JoinComma(toks) ==
    IF toks = <<>> THEN <<>>
    ELSE IF Len(toks) = 1 THEN toks[1]
    ELSE toks[1] \o <<",">> \o JoinComma(Tail(toks))

TokenLists == UNION { [1..n -> RawTokens] : n \in 0..MaxTokens }

Descriptors == { JoinComma(toks) : toks \in TokenLists }

\* "A-B" for all abbreviations A and B, by their indices in dayOrderArray.
RangeToken(a, b) == <<dayOrderArray[a], "-", dayOrderArray[b]>>

RangeDescriptors == { RangeToken(a, b) : a \in 1..7, b \in 1..7 }

\* 09:00-12:00 and 22:00-02:00
SlotsForDays ==
    { [Start |-> Clock(<<"0", "9">>, ":", <<"0", "0">>),
       End |-> Clock(<<"1", "2">>, ":", <<"0", "0">>)],
      [Start |-> Clock(<<"2", "2">>, ":", <<"0", "0">>),
       End |-> Clock(<<"0", "2">>, ":", <<"0", "0">>)] }

\* Day fields of shows with missing or empty descriptors, and sound ones.
DayFieldsForFields ==
    { <<>>,
      [Day |-> <<>>],
      [Day |-> <<>>, DaysOfWeek |-> <<"Monday">>],
      [DaysOfWeek |-> <<>>],
      [Day |-> <<"Monday">>],
      [Day |-> <<"Monday">>, DaysOfWeek |-> <<"Fri", "-", "Sat">>],
      [DaysOfWeek |-> <<"Fri", "-", "Sat">>] }

\* Start and End, each a clock time, an odd value, or absent.
SlotsForFields ==
    LET vals == FewClockStrings \cup OddTimeStrings
    IN  { [Start |-> s, End |-> e] : s \in vals, e \in vals }
            \cup { [Start |-> s] : s \in vals }
            \cup { [End |-> e] : e \in vals }
            \cup { <<>> }

(***************************************************************************)
(* The call.                                                               *)
(***************************************************************************)
\* No aggregation under way.
NoAnalytics ==
    /\ schedule = <<>>
    /\ registrations = <<>>
    /\ processed = 0
    /\ regsPerShow = <<>>
    /\ matched = <<>>

\* No selector shown.
NoSelector ==
    /\ selectorValue = <<>>
    /\ reported = <<>>
    /\ toggles = <<>>

\* The dashboard as it is mounted, untouched.
NoDashboard ==
    /\ activeView = "overview"
    /\ viewPayload = <<>>
    /\ isAdminUnlocked = FALSE
    /\ showAdminModal = FALSE
    /\ password = ""
    /\ passwordError = ""
    /\ destinationView = "null"
    /\ lastEvent = <<>>

\* The agent tester as it is mounted, untouched.
NoAgent ==
    /\ sessionMemory = <<>>
    /\ activeTestUserId = "user-123"
    /\ testUserInput = ""
    /\ isThinking = FALSE
    /\ inFlight = <<>>
    /\ clock = 0
    /\ sends = 0
    /\ agentEvent = "none"

NoRest == NoSelector /\ NoDashboard /\ NoAgent

\* No table shown.
NoDataTable ==
    /\ sheetName = ""
    /\ data = <<>>
    /\ currentRow = <<>>
    /\ isModalOpen = FALSE
    /\ modalError = FALSE
    /\ payload = <<>>
    /\ request = "none"
    /\ savedRow = <<>>

InitCall ==
    /\ pc = "ready"
    /\ scheduledDays = {}
    /\ result = FALSE
    /\ remembered = <<>>
    /\ NoAnalytics
    /\ NoDataTable
    /\ NoRest

\* Well-formed slots at their boundary minutes.
InitTimes ==
    /\ \E f \in DayFieldsForTimes : \E s \in ClockStrings : \E e \in ClockStrings :
          show = f @@ [Start |-> s, End |-> e]
    /\ date \in TimePoints
    /\ InitCall

\* Generated day descriptors, and every range, in the compact field.
InitDays ==
    /\ \E desc \in Descriptors \cup RangeDescriptors : \E slot \in SlotsForDays :
          show = [DaysOfWeek |-> desc] @@ slot
    /\ date \in FewPoints
    /\ InitCall

\* Missing, empty and malformed fields.
InitFields ==
    /\ \E f \in DayFieldsForFields : \E slot \in SlotsForFields : show = f @@ slot
    /\ date \in FewPoints
    /\ InitCall

\* schedule.find(show => isShowOnAir(show, date)) evaluating one show.
CallIsShowOnAir ==
    /\ pc = "ready"
    /\ pc' = "done"
    /\ scheduledDays' = scheduledDaysOf(show)
    /\ result' = isShowOnAir(show, date)
    /\ UNCHANGED <<show, date, remembered, analyticsVars, dataTableVars, restVars>>

Next == CallIsShowOnAir

\* All the shows and points of the three kinds of input.
InitShows == InitTimes \/ InitDays \/ InitFields

SpecShows == InitShows /\ [][Next]_vars

SpecTimes == InitTimes /\ [][Next]_vars

SpecDays == InitDays /\ [][Next]_vars

SpecFields == InitFields /\ [][Next]_vars

\* Shows and points of a run of several calls.
ShowsForCalls ==
    { [Day |-> <<"Monday">>, Start |-> Clock(<<"0", "9">>, ":", <<"0", "0">>),
                             End |-> Clock(<<"1", "2">>, ":", <<"0", "0">>)],
      [DaysOfWeek |-> <<"Fri", "-", "Sat">>,
           Start |-> Clock(<<"2", "2">>, ":", <<"0", "0">>),
           End |-> Clock(<<"0", "2">>, ":", <<"0", "0">>)],
      [Day |-> <<"Sun">>, Start |-> Clock(<<"2", "2">>, ":", <<"0", "0">>),
                          End |-> Clock(<<"0", "2">>, ":", <<"0", "0">>)],
      [Day |-> <<"Sat", "-", "Mon">>,
           Start |-> Clock(<<"0", "9">>, ":", <<"0", "0">>),
           End |-> Clock(<<"1", "2">>, ":", <<"0", "0">>)] }

PointsForCalls == { PointAt(d, m) : d \in {0, 1, 6}, m \in {60, 600} }

InitCalls ==
    /\ show \in ShowsForCalls
    /\ date \in PointsForCalls
    /\ InitCall

\* The caller goes on to its next evaluation: schedule.find hands over the
\* next show, forEach the next record.  The history keeps the finished call
\* or not, and notes when a different call has come after the one it keeps.
NextEvaluation ==
    /\ pc = "done"
    /\ pc' = "ready"
    /\ show' \in ShowsForCalls
    /\ date' \in PointsForCalls
    /\ result' = FALSE
    /\ \/ remembered' = <<[show |-> show, date |-> date, result |-> result,
                           between |-> FALSE]>>
       \/ /\ remembered # <<>>
          /\ remembered' =
                <<[remembered[1] EXCEPT !.between =
                      @ \/ remembered[1].show # show \/ remembered[1].date # date]>>
       \/ remembered = <<>> /\ remembered' = <<>>
    /\ UNCHANGED <<scheduledDays, analyticsVars, dataTableVars, restVars>>

NextCalls == CallIsShowOnAir \/ NextEvaluation

SpecCalls == InitCalls /\ [][NextCalls]_vars

(***************************************************************************)
(* The aggregation: registrations.forEach(reg => ... schedule.find ...).   *)
(***************************************************************************)
\* Most entries of a schedule, most records of a run.
MaxSchedule == 2

MaxRecords == 3

\* Two Monday-morning shows that overlap, an overnight show under the name
\* of the first, and a Monday-morning show named as a property every
\* object inherits.
ShowsForAnalytics ==
    { [Show |-> "Breakfast", Day |-> <<"Monday">>,
           Start |-> Clock(<<"0", "9">>, ":", <<"0", "0">>),
           End |-> Clock(<<"1", "2">>, ":", <<"0", "0">>)],
      [Show |-> "Drive", DaysOfWeek |-> <<"Mon", "-", "Wed">>,
           Start |-> Clock(<<"0", "9">>, ":", <<"3", "0">>),
           End |-> Clock(<<"1", "2">>, ":", <<"3", "0">>)],
      [Show |-> "Breakfast", DaysOfWeek |-> <<"Fri", "-", "Sat">>,
           Start |-> Clock(<<"2", "2">>, ":", <<"0", "0">>),
           End |-> Clock(<<"0", "2">>, ":", <<"0", "0">>)],
      [Show |-> "constructor", Day |-> <<"Monday">>,
           Start |-> Clock(<<"0", "9">>, ":", <<"0", "0">>),
           End |-> Clock(<<"1", "2">>, ":", <<"0", "0">>)] }

\* Records: Monday 10:00, Saturday 01:00, Sunday 10:00, and one whose date
\* does not parse.
RecordsForAnalytics ==
    { [valid |-> TRUE, at |-> PointAt(1, 600)],
      [valid |-> TRUE, at |-> PointAt(6, 60)],
      [valid |-> TRUE, at |-> PointAt(0, 600)],
      [valid |-> FALSE, at |-> PointAt(0, 0)] }

\* schedule.find(show => isShowOnAir(show, regDate)): the index of the
\* first entry on air, 0 when find returns undefined.
FindShow(sched, at) ==
    IF \E i \in 1..Len(sched) : isShowOnAir(sched[i], at)
    THEN CHOOSE i \in 1..Len(sched) :
            /\ isShowOnAir(sched[i], at)
            /\ \A j \in 1..(i - 1) : ~isShowOnAir(sched[j], at)
    ELSE 0

\* (regsPerShow[name] || 0) + 1.  A count is [inherited, n]: the number n,
\* or, for inherited, the text of an inherited function followed by n
\* characters "1" (a function + 1 is a string, and so is a string + 1).
CountAfter(counts, name) ==
    IF name \in DOMAIN counts THEN [counts[name] EXCEPT !.n = @ + 1]
    ELSE IF name \in ObjectPrototypeKeys THEN [inherited |-> TRUE, n |-> 1]
    ELSE [inherited |-> FALSE, n |-> 1]

\* regsPerShow[name] = ...
Assign(counts, name, value) ==
    [k \in DOMAIN counts \cup {name} |-> IF k = name THEN value ELSE counts[k]]

InitAnalytics ==
    /\ schedule \in UNION { [1..n -> ShowsForAnalytics] : n \in 0..MaxSchedule }
    /\ registrations \in UNION { [1..n -> RecordsForAnalytics] : n \in 0..MaxRecords }
    /\ processed = 0
    /\ regsPerShow = <<>>
    /\ matched = <<>>
    /\ show = <<>>
    /\ date = PointAt(0, 0)
    /\ pc = "done"
    /\ scheduledDays = {}
    /\ result = FALSE
    /\ remembered = <<>>
    /\ NoDataTable
    /\ NoRest

\* One turn of forEach: a record without a valid date is passed over, any
\* other is counted under the name of the first entry on air, if any.
ProcessRecord ==
    /\ Len(schedule) > 0
    /\ processed < Len(registrations)
    /\ LET reg == registrations[processed + 1]
           found == IF reg.valid THEN FindShow(schedule, reg.at) ELSE 0
       IN  /\ matched' = Append(matched, found)
           /\ regsPerShow' =
                 IF found = 0 THEN regsPerShow
                 ELSE Assign(regsPerShow, schedule[found].Show,
                             CountAfter(regsPerShow, schedule[found].Show))
    /\ processed' = processed + 1
    /\ UNCHANGED <<schedule, registrations>>
    /\ UNCHANGED <<show, date, pc, scheduledDays, result, remembered, dataTableVars,
                   restVars>>

NextAnalytics == ProcessRecord

SpecAnalytics == InitAnalytics /\ [][NextAnalytics]_vars

(***************************************************************************)
(* The data table: a row is edited or added in the window, then saved.     *)
(***************************************************************************)
\* { ...row, [key]: value }
WithKey(row, key, value) ==
    [k \in DOMAIN row \cup {key} |-> IF k = key THEN value ELSE row[k]]

\* delete row[key]
WithoutKey(row, key) == [k \in DOMAIN row \ {key} |-> row[k]]

\* The column keys the three tables are built with.
ColumnKeys(sheet) ==
    IF sheet = "TimeSlots"
    THEN {"Day", "Show", "Presenter", "Start", "End", "Aliases"}
    ELSE IF sheet = "KnowledgeBase" THEN {"Topic", "Information"}
    ELSE {"Name", "Surname", "Area", "Email", "ReferredByCode"}

SheetNames == {"TimeSlots", "KnowledgeBase"}

\* Day fields of a few rows that carry both fields, an empty one, or none.
MixedDayFields ==
    { [Day |-> <<"Mon">>, DaysOfWeek |-> <<"Mon", "-", "Wed">>],
      [Day |-> <<"Friday", ",", "Monday">>, DaysOfWeek |-> <<"Fri">>],
      [Day |-> <<>>, DaysOfWeek |-> <<"Mon", "-", "Wed">>],
      [Day |-> <<>>, DaysOfWeek |-> <<>>],
      [Day |-> <<" ">>],
      [Day |-> <<>>],
      <<>> }

\* Rows as the backend returns them: each has its rowIndex.
RowsOf(sheet) ==
    IF sheet = "TimeSlots"
    THEN { f @@ [Show |-> "Breakfast", rowIndex |-> 2] :
              f \in { [Day |-> d] : d \in Descriptors }
                    \cup { [DaysOfWeek |-> d] : d \in Descriptors }
                    \cup MixedDayFields }
    ELSE { f @@ [Topic |-> "Hours", Information |-> "Open", rowIndex |-> 2] :
              f \in { <<>>, [Day |-> <<"Mon", "-", "Wed">>],
                      [DaysOfWeek |-> <<"Mon", "-", "Wed">>],
                      [Day |-> <<"Friday", ",", "Monday">>,
                       DaysOfWeek |-> <<"Fri">>] } }

\* What the inputs of the window can hand to handleModalInputChange: the
\* day selector reports a list of full names, a text input its text.
InputChanges(sheet) ==
    IF sheet = "TimeSlots"
    THEN { <<"Day", v>> : v \in { <<>>, <<"Monday">>,
                                   <<"Monday", ",", " ", "Friday">> } }
           \cup { <<"Show", "Drive">> }
    ELSE { <<"Topic", "Prices">> }

InitDataTable ==
    /\ sheetName \in SheetNames
    /\ data \in { <<row>> : row \in RowsOf(sheetName) }
    /\ currentRow = <<>>
    /\ isModalOpen = FALSE
    /\ modalError = FALSE
    /\ payload = <<>>
    /\ request = "none"
    /\ savedRow = <<>>
    /\ show = <<>>
    /\ date = PointAt(0, 0)
    /\ pc = "done"
    /\ scheduledDays = {}
    /\ result = FALSE
    /\ remembered = <<>>
    /\ NoAnalytics
    /\ NoRest

matcherVars == <<show, date, pc, scheduledDays, result, remembered>>

\* The record of the last save ends when another row is taken in the window.
ForgetSave == payload' = <<>> /\ request' = "none" /\ savedRow' = <<>>

handleEdit ==
    /\ \E i \in 1..Len(data) : currentRow' = <<data[i]>>
    /\ modalError' = FALSE
    /\ isModalOpen' = TRUE
    /\ ForgetSave
    /\ UNCHANGED <<sheetName, data, matcherVars, analyticsVars, restVars>>

handleAdd ==
    /\ currentRow' = << [k \in ColumnKeys(sheetName) |->
                            IF k = "Day" THEN <<>> ELSE ""] >>
    /\ modalError' = FALSE
    /\ isModalOpen' = TRUE
    /\ ForgetSave
    /\ UNCHANGED <<sheetName, data, matcherVars, analyticsVars, restVars>>

\* The inputs exist only while the window is rendered.
handleModalInputChange ==
    /\ isModalOpen /\ currentRow # <<>>
    /\ \E c \in InputChanges(sheetName) :
          currentRow' = << WithKey(currentRow[1], c[1], c[2]) >>
    /\ UNCHANGED <<sheetName, data, isModalOpen, modalError, payload, request, savedRow,
                   matcherVars, analyticsVars, restVars>>

\* The Cancel button of the window.
CancelModal ==
    /\ isModalOpen /\ currentRow # <<>>
    /\ isModalOpen' = FALSE
    /\ UNCHANGED <<sheetName, data, currentRow, modalError, payload, request, savedRow,
                   matcherVars, analyticsVars, restVars>>

\* payload.Day ?? payload['Day(s) of Week'] ?? ''
rawDayOf(row) ==
    IF "Day" \in DOMAIN row THEN row.Day
    ELSE IF "DaysOfWeek" \in DOMAIN row THEN row.DaysOfWeek
    ELSE <<>>

PayloadOf_KeepCompact(sheet, row) ==
    IF sheet = "TimeSlots"
    THEN IF rawDayOf(row) # <<>>
         THEN WithKey(row, "Day", normaliseDaysForSelector(rawDayOf(row)))
         ELSE row
    ELSE row

\* The copy of the row that handleSave hands to the backend call.
PayloadOf(sheet, row) ==
    IF sheet = "TimeSlots"
    THEN WithoutKey(IF rawDayOf(row) # <<>>
                    THEN WithKey(row, "Day", normaliseDaysForSelector(rawDayOf(row)))
                    ELSE row,
                    "DaysOfWeek")
    ELSE row

\* The Save button of the window.  The backend call succeeds or throws; after
\* a success the window closes and the row is dropped, after a failure the
\* window stays with a message.  What loadData fetches afterwards is the
\* sheet's answer: the rows drawn at the start stand for it.
handleSave ==
    /\ isModalOpen /\ currentRow # <<>>
    /\ savedRow' = currentRow[1]
    /\ payload' = PayloadOf(sheetName, currentRow[1])
    /\ request' = IF "rowIndex" \in DOMAIN payload' /\ payload'.rowIndex # 0
                  THEN "updateRow" ELSE "createRow"
    /\ \E succeeded \in BOOLEAN :
          IF succeeded
          THEN isModalOpen' = FALSE /\ currentRow' = <<>> /\ modalError' = FALSE
          ELSE modalError' = TRUE /\ UNCHANGED <<isModalOpen, currentRow>>
    /\ UNCHANGED <<sheetName, data, matcherVars, analyticsVars, restVars>>

NextDataTable ==
    \/ handleEdit
    \/ handleAdd
    \/ handleModalInputChange
    \/ CancelModal
    \/ handleSave

SpecDataTable == InitDataTable /\ [][NextDataTable]_vars

TypeOK ==
    /\ pc \in {"ready", "done"}
    /\ result \in BOOLEAN
    /\ date.day \in 0..6 /\ date.hours \in 0..23 /\ date.minutes \in 0..59

(***************************************************************************)
(* Vocabulary of the properties.                                           *)
(***************************************************************************)
Done == pc = "done"

Desc == formattedDayString(show)

\* Both times are there and parsed.
TimesParsed ==
    ~MissingField(show) /\ ~TimeIsNaN(show.Start) /\ ~TimeIsNaN(show.End)

startMinutes == TimeMinutes(show.Start)

endMinutes == TimeMinutes(show.End)

currentMinutes == date.hours * 60 + date.minutes

\* The point's weekday; getDay() counts from Sunday.
Weekday == IF date.day = 0 THEN "Sunday" ELSE fullDaysOfWeek[date.day]

\* Position in the canonical Monday-first week, 1..7.
CanonicalIndex(name) == CHOOSE i \in 1..7 : fullDaysOfWeek[i] = name

\* The weekday before a weekday, around the week.
DayBefore(name) ==
    fullDaysOfWeek[IF CanonicalIndex(name) = 1 THEN 7 ELSE CanonicalIndex(name) - 1]

IsShow(dayString, start, end) ==
    Desc = dayString /\ show.Start = start /\ show.End = end

T0900 == Clock(<<"0", "9">>, ":", <<"0", "0">>)

T1200 == Clock(<<"1", "2">>, ":", <<"0", "0">>)

T2200 == Clock(<<"2", "2">>, ":", <<"0", "0">>)

T0200 == Clock(<<"0", "2">>, ":", <<"0", "0">>)

(***************************************************************************)
(* C1                                                                      *)
(***************************************************************************)
\* C1: for a same-day slot (parsed end >= start) the call returns true
\* exactly when the point's weekday is in the resolved day set and
\* start <= current minute < end; on a listed day the minute of the start
\* of a non-empty slot matches and the minute of the end does not.
C1_SameDaySlot ==
    (Done /\ TimesParsed /\ endMinutes >= startMinutes) =>
        /\ result <=> /\ Weekday \in scheduledDays
                      /\ startMinutes <= currentMinutes
                      /\ currentMinutes < endMinutes
        /\ (Weekday \in scheduledDays /\ startMinutes < endMinutes
                /\ currentMinutes = startMinutes) => result
        /\ (Weekday \in scheduledDays /\ currentMinutes = endMinutes) => ~result

\* A listed day at the end minute of a same-day slot: not on air.
C1_Witness ==
    /\ Done /\ TimesParsed /\ startMinutes < endMinutes
    /\ Weekday \in scheduledDays
    /\ currentMinutes = endMinutes
    /\ ~result

(***************************************************************************)
(* C2                                                                      *)
(***************************************************************************)
\* C2: for a slot that crosses midnight (parsed end < start) the call
\* returns true exactly when (the point's weekday is listed and the current
\* minute >= start) or (the preceding weekday is listed and the current
\* minute < end); Fri-Sat 22:00-02:00 is on air on Saturday 01:30 and not
\* on Saturday 03:00.
C2_OvernightSlot ==
    /\ (Done /\ TimesParsed /\ endMinutes < startMinutes) =>
          (result <=>
              \/ Weekday \in scheduledDays /\ currentMinutes >= startMinutes
              \/ DayBefore(Weekday) \in scheduledDays /\ currentMinutes < endMinutes)
    /\ (Done /\ IsShow(<<"Fri", "-", "Sat">>, T2200, T0200) /\ date.day = 6) =>
          /\ currentMinutes = 90 => result
          /\ currentMinutes = 180 => ~result

\* An overnight show on air in its morning part on a day that is not
\* listed itself.
C2_Witness ==
    /\ Done /\ TimesParsed /\ endMinutes < startMinutes
    /\ Weekday \notin scheduledDays
    /\ DayBefore(Weekday) \in scheduledDays
    /\ currentMinutes < endMinutes
    /\ result

(***************************************************************************)
(* C3                                                                      *)
(***************************************************************************)
\* C3: for an overnight slot and a listed start day D, on the day after D
\* the minute end-1 is on air and the minute end is not, whether or not the
\* day after D is listed.
C3_OvernightEnd ==
    (Done /\ TimesParsed /\ endMinutes < startMinutes
          /\ DayBefore(Weekday) \in scheduledDays) =>
        /\ currentMinutes = endMinutes - 1 => result
        /\ currentMinutes = endMinutes => ~result

\* The day after a listed day, itself listed, at the end minute.
C3_Witness ==
    /\ Done /\ TimesParsed /\ endMinutes < startMinutes
    /\ DayBefore(Weekday) \in scheduledDays
    /\ Weekday \in scheduledDays
    /\ currentMinutes = endMinutes
    /\ ~result

(***************************************************************************)
(* C4                                                                      *)
(***************************************************************************)
\* Shows that start at the minute the show of the state ends.
FollowingShows ==
    { f @@ [Start |-> s, End |-> e] :
        f \in DayFieldsForTimes,
        s \in { t \in ClockStrings : TimeMinutes(t) = endMinutes },
        e \in ClockStrings }

\* C4: back-to-back shows never both claim the boundary minute: at a point
\* whose minute is the end of show A, A and a show B that starts at that
\* minute are not both on air, whatever their days and whether or not
\* either crosses midnight.
C4_BoundaryMinute ==
    (Done /\ TimesParsed /\ currentMinutes = endMinutes) =>
        \A B \in FollowingShows : ~(result /\ isShowOnAir(B, date))

\* At the boundary minute the following show is on air and the ending show
\* is not, on a day both list.
C4_Witness ==
    /\ Done /\ TimesParsed /\ currentMinutes = endMinutes
    /\ Weekday \in scheduledDays
    /\ ~result
    /\ isShowOnAir([Day |-> Desc, Start |-> show.End, End |-> T2200], date)

(***************************************************************************)
(* C5                                                                      *)
(***************************************************************************)
\* C5: a range token "A-B" with index(A) <= index(B) resolves to exactly
\* the full day names at the indices index(A)..index(B); "Mon-Wed" gives
\* exactly Monday, Tuesday and Wednesday.
C5_RangeExpands ==
    /\ \A a \in 1..7 : \A b \in a..7 :
          (Done /\ Desc = RangeToken(a, b)) =>
              scheduledDays = { fullDaysOfWeek[i] : i \in a..b }
    /\ (Done /\ Desc = <<"Mon", "-", "Wed">>) =>
          scheduledDays = {"Monday", "Tuesday", "Wednesday"}

\* "Mon-Wed" resolved, on air on its last day.
C5_Witness ==
    /\ Done /\ Desc = <<"Mon", "-", "Wed">>
    /\ scheduledDays = {"Monday", "Tuesday", "Wednesday"}
    /\ Weekday = "Wednesday"
    /\ result

(***************************************************************************)
(* C6                                                                      *)
(***************************************************************************)
\* "A-B" with index(A) > index(B).
ReversedRanges ==
    { RangeToken(p[1], p[2]) : p \in { q \in (1..7) \X (1..7) : q[1] > q[2] } }

\* C6: a range whose start index exceeds its end index adds no days: a
\* show with only such a token has an empty day set and is never on air,
\* and next to another token the set is that of the other token alone.
C6_ReversedRangeEmpty ==
    Done =>
        /\ Desc \in ReversedRanges => (scheduledDays = {} /\ ~result)
        /\ \A r \in ReversedRanges \cap RawTokens : \A t \in RawTokens :
              (Desc = JoinComma(<<r, t>>) \/ Desc = JoinComma(<<t, r>>)) =>
                  scheduledDays = ResolveDays(t)

\* "Sat-Mon" at a Sunday minute inside the slot: not on air.
C6_Witness ==
    /\ Done /\ Desc = <<"Sat", "-", "Mon">>
    /\ Weekday = "Sunday"
    /\ startMinutes <= currentMinutes /\ currentMinutes < endMinutes
    /\ ~result

(***************************************************************************)
(* C7                                                                      *)
(***************************************************************************)
\* The tokens of the descriptor: what stands between the commas, trimmed,
\* empty ones left out.
Tokens == TrimAndFilter(Split(Desc, ","))

IsAbbreviation(str) == \E i \in 1..7 : str = <<dayOrderArray[i]>>

IsFullName(str) == \E i \in 1..7 : str = <<fullDaysOfWeek[i]>>

\* A token the resolution rules give days to: an abbreviation, a full
\* name, or a range of two abbreviations in canonical order.
Resolvable(tok) ==
    IF Includes(tok, "-")
    THEN \E a \in 1..7 : \E b \in 1..7 :
            /\ a <= b
            /\ Split(tok, "-")[1] = <<dayOrderArray[a]>>
            /\ Split(tok, "-")[2] = <<dayOrderArray[b]>>
    ELSE IsAbbreviation(tok) \/ IsFullName(tok)

\* The resolved set is the union of what each token resolves to alone.
UnionOfTokens ==
    (Done /\ ~MissingField(show)) =>
        scheduledDays = UNION { ResolveDays(Tokens[i]) : i \in 1..Len(Tokens) }

\* C7: the resolved day set is the union of the days each comma-separated
\* token resolves to on its own (so neither order nor repetition matter),
\* "Mon-Wed, Friday" gives Monday, Tuesday, Wednesday and Friday, and an
\* unresolvable token contributes nothing.
C7_UnionOfTokens ==
    /\ UnionOfTokens
    /\ (Done /\ Desc = <<"Mon", "-", "Wed", ",", " ", "Friday">>) =>
          scheduledDays = {"Monday", "Tuesday", "Wednesday", "Friday"}
    /\ (Done /\ ~MissingField(show)) =>
          \A i \in 1..Len(Tokens) :
              ~Resolvable(Tokens[i]) => ResolveDays(Tokens[i]) = {}

(***************************************************************************)
(* C8                                                                      *)
(***************************************************************************)
Missing(field) == field \notin DOMAIN show \/ show[field] = <<>>

\* C8: a show without a start time, without an end time or with an empty
\* day descriptor is on air at no point in time.
C8_MissingFieldFalse ==
    (Done /\ (Missing("Start") \/ Missing("End") \/ Desc = <<>>)) => ~result

\* Monday 10:00 against a Monday show that ends at 12:00 and has no start.
C8_Witness ==
    /\ Done
    /\ "Start" \notin DOMAIN show
    /\ Desc = <<"Monday">> /\ "End" \in DOMAIN show /\ show.End = T1200
    /\ Weekday = "Monday" /\ currentMinutes = 600
    /\ ~result

(***************************************************************************)
(* C9                                                                      *)
(***************************************************************************)
IsInteger(str) == Trim(str) # <<>> /\ \A i \in 1..Len(Trim(str)) : Trim(str)[i] \in Digits

\* The time string holds an hour and a minute, both integers, separated by
\* ":" or "h".
ParsesAsTwoIntegers(timeValue) ==
    LET parts == TimeParts(timeValue)
    IN  Len(parts) >= 2 /\ IsInteger(parts[1]) /\ IsInteger(parts[2])

\* C9: when the start or the end time does not parse as two integers the
\* call returns false at every point in time (it never throws: every call
\* ends with a boolean).
C9_UnparsableFalse ==
    Done =>
        /\ result \in BOOLEAN
        /\ ("Start" \in DOMAIN show /\ ~ParsesAsTwoIntegers(show.Start)) => ~result
        /\ ("End" \in DOMAIN show /\ ~ParsesAsTwoIntegers(show.End)) => ~result

(***************************************************************************)
(* C10                                                                     *)
(***************************************************************************)
\* C10: the resolved day set is a subset of the seven canonical full
\* weekday names.
C10_DaysAreWeekdays ==
    Done => scheduledDays \subseteq { fullDaysOfWeek[i] : i \in 1..7 }

(***************************************************************************)
(* C11                                                                     *)
(***************************************************************************)
\* C11: the previous day is the cyclic predecessor of the point's weekday
\* on all seven weekdays, so an overnight show listed on one day only is on
\* air on the following day at every minute below its end: listed on
\* Sunday it is on air on Monday, listed on Saturday it is on air on Sunday.
C11_PreviousDayCyclic ==
    /\ previousDayName(date) = DayBefore(Weekday)
    /\ (Done /\ TimesParsed /\ endMinutes < startMinutes
             /\ currentMinutes < endMinutes) =>
          /\ (scheduledDays = {"Sunday"} /\ Weekday = "Monday") => result
          /\ (scheduledDays = {"Saturday"} /\ Weekday = "Sunday") => result
          /\ scheduledDays = {DayBefore(Weekday)} => result

\* A Saturday-only overnight show on air on Sunday morning.
C11_Witness ==
    /\ Done /\ TimesParsed /\ endMinutes < startMinutes
    /\ scheduledDays = {"Saturday"} /\ Weekday = "Sunday"
    /\ currentMinutes < endMinutes
    /\ result

(***************************************************************************)
(* C12                                                                     *)
(***************************************************************************)
\* The call that has just returned had the arguments of the remembered one.
SameCallAsRemembered ==
    /\ Done /\ remembered # <<>>
    /\ remembered[1].show = show /\ remembered[1].date = date

CompactValues == { <<>>, <<"Monday">>, <<"Sun">>, <<"Fri", "-", "Sat">> }

\* The show with another value in its compact field, and with none.
WithCompact(s, v) ==
    [f \in DOMAIN s \cup {"DaysOfWeek"} |-> IF f = "DaysOfWeek" THEN v ELSE s[f]]

WithoutCompact(s) == [f \in DOMAIN s \ {"DaysOfWeek"} |-> s[f]]

\* The show with the value of its compact field as its expanded field.
CompactAsDay(s) ==
    [f \in DOMAIN s \cup {"Day"} |-> IF f = "Day" THEN s.DaysOfWeek ELSE s[f]]

\* C13: the descriptor matched is the expanded field Day whenever the show
\* has it, and the compact field only when it has no Day; with Day there,
\* the result is the same for every value of the compact field and without
\* that field.
C13_DayFieldFirst ==
    Done =>
        /\ "Day" \in DOMAIN show =>
              /\ ~MissingField(show) => scheduledDays = ResolveDays(show.Day)
              /\ result = isShowOnAir(WithoutCompact(show), date)
              /\ \A v \in CompactValues : result = isShowOnAir(WithCompact(show, v), date)
        /\ ("Day" \notin DOMAIN show /\ "DaysOfWeek" \in DOMAIN show) =>
              /\ ~MissingField(show) => scheduledDays = ResolveDays(show.DaysOfWeek)
              /\ result = isShowOnAir(CompactAsDay(show), date)

\* A Monday show whose compact field says Fri-Sat, on air on Monday.
C13_Witness ==
    /\ Done
    /\ "Day" \in DOMAIN show /\ show.Day = <<"Monday">>
    /\ "DaysOfWeek" \in DOMAIN show /\ show.DaysOfWeek = <<"Fri", "-", "Sat">>
    /\ Weekday = "Monday"
    /\ result

(***************************************************************************)
(* C14                                                                     *)
(***************************************************************************)
\* Entry i of the schedule is on air at the point of record j.
OnAirAt(i, j) == isShowOnAir(schedule[i], registrations[j].at)

\* Every record gone through is counted for the first entry on air at its
\* time, and for none when no entry is or its date is not valid.
FirstMatchOnly ==
    /\ Len(matched) = processed
    /\ \A j \in 1..processed :
          LET on == { i \in 1..Len(schedule) : registrations[j].valid /\ OnAirAt(i, j) }
          IN  IF on = {} THEN matched[j] = 0
              ELSE matched[j] \in on /\ \A i \in on : matched[j] <= i

RECURSIVE SumCounts(_, _)
SumCounts(counts, names) ==
    IF names = {} THEN 0
    ELSE LET k == CHOOSE x \in names : TRUE
         IN  counts[k].n + SumCounts(counts, names \ {k})

\* C14: each record is attributed to at most one schedule entry, the first
\* in list order that is on air, and to none if none is; the per-show
\* counts are numbers whose sum never exceeds the number of records.
C14_FirstMatchCounts ==
    /\ FirstMatchOnly
    /\ \A k \in DOMAIN regsPerShow : ~regsPerShow[k].inherited
    /\ SumCounts(regsPerShow, DOMAIN regsPerShow) <= processed

(***************************************************************************)
(* C15                                                                     *)
(***************************************************************************)
\* "HH:MM" written "HHhMM", and a time with seconds after it.
HForm(t) == ReplaceFirst(t, ":", "h")

WithSeconds(t) == t \o <<":", "3", "0">>

WithTimes(s, start, end) == [s EXCEPT !.Start = start, !.End = end]

\* C15: a show whose times are written "HHhMM" gives at every point the
\* result of the same show written "HH:MM", a trailing seconds component
\* changes nothing, and Monday 09h00-12h00 matches Monday 11:59 and not
\* Monday 12:00.
C15_HSeparator ==
    /\ (Done /\ TimesParsed /\ ~Includes(show.Start, "h") /\ ~Includes(show.End, "h")) =>
          /\ result = isShowOnAir(WithTimes(show, HForm(show.Start), HForm(show.End)), date)
          /\ result = isShowOnAir(WithTimes(show, HForm(show.Start), show.End), date)
          /\ result = isShowOnAir(WithTimes(show, WithSeconds(show.Start),
                                            WithSeconds(show.End)), date)
          /\ result = isShowOnAir(WithTimes(show, WithSeconds(HForm(show.Start)),
                                            WithSeconds(HForm(show.End))), date)
    /\ (Done /\ IsShow(<<"Monday">>, HForm(T0900), HForm(T1200)) /\ Weekday = "Monday") =>
          /\ currentMinutes = 719 => result
          /\ currentMinutes = 720 => ~result

\* Monday 09h00-12h00 on air on Monday 11:59.
C15_Witness ==
    /\ Done /\ IsShow(<<"Monday">>, HForm(T0900), HForm(T1200))
    /\ Weekday = "Monday" /\ currentMinutes = 719
    /\ result

(***************************************************************************)
(* C16                                                                     *)
(***************************************************************************)
\* C16: the copy of isShowOnAir in the request analytics view returns, for
\* every show and every point, what the copy in the registration analytics
\* view returns.
C16_CopiesAgree ==
    Done => result = isShowOnAirRequests(show, date)

\* An overnight show both copies find on air.
C16_Witness ==
    /\ Done /\ TimesParsed /\ endMinutes < startMinutes
    /\ result
    /\ isShowOnAirRequests(show, date)

(***************************************************************************)
(* The data table's normaliser.                                            *)
(***************************************************************************)
\* A save has handed a payload to the backend call.
Saved == request # "none"

\* The save normalised a day value: the sheet is TimeSlots and the row had one.
SavedWithDay == Saved /\ sheetName = "TimeSlots" /\ rawDayOf(savedRow) # <<>>

\* The descriptor that was normalised, and the output.
rawDay == rawDayOf(savedRow)

normalised == payload.Day

\* The entries a comma-separated list names.
RECURSIVE Range(_)
Range(seq) == IF seq = <<>> THEN {} ELSE {Head(seq)} \cup Range(Tail(seq))

ListedNames(list) == Range(TrimAndFilter(Split(list, ",")))

\* C17: for every day descriptor, the day names listed in the output of
\* normaliseDaysForSelector are the day set isShowOnAir resolves from the
\* same descriptor; both are empty when no token is resolvable.
C17_SelectorAgreesWithMatcher ==
    SavedWithDay =>
        ListedNames(normalised) = { <<d>> : d \in ResolveDays(rawDay) }

\* A comma-separated list of full day names, one or more, with or without a
\* space after each comma.
RECURSIVE IsFullNameList(_)
IsFullNameList(parts) ==
    /\ parts # <<>>
    /\ LET p == Head(parts)
           name == IF Len(p) = 2 /\ p[1] = " " THEN <<p[2]>> ELSE p
       IN  Len(name) = 1 /\ IndexOf(fullDaysOfWeekSelector, name) > -1
    /\ Tail(parts) = <<>> \/ IsFullNameList(Tail(parts))

AlreadyFullNames(list) ==
    /\ list # <<>>
    /\ Head(list) # " "
    /\ IsFullNameList(Split(list, ","))

\* C18: an input that is already a comma-separated list of full day names
\* is returned as it is, whatever the order of the names and the spacing
\* after the commas.
C18_FullNamesAsIs ==
    (SavedWithDay /\ AlreadyFullNames(rawDay)) => normalised = rawDay

\* The days the resolution rules give to a token: a range of abbreviations in
\* canonical order gives its span, an abbreviation its day, a full name itself.
DaysOfToken(tok) ==
    IF ~Resolvable(tok) THEN {}
    ELSE IF Includes(tok, "-")
    THEN LET a == CHOOSE i \in 1..7 : Split(tok, "-")[1] = <<dayOrderArray[i]>>
             b == CHOOSE i \in 1..7 : Split(tok, "-")[2] = <<dayOrderArray[i]>>
         IN  { fullDaysOfWeek[i] : i \in a..b }
    ELSE IF IsAbbreviation(tok)
    THEN { fullDaysOfWeek[CHOOSE i \in 1..7 : tok = <<dayOrderArray[i]>>] }
    ELSE { tok[1] }

TokensOf(list) == TrimAndFilter(Split(list, ","))

HasResolvableToken(list) ==
    \E i \in 1..Len(TokensOf(list)) : Resolvable(TokensOf(list)[i])

ResolvedDays(list) ==
    UNION { DaysOfToken(TokensOf(list)[i]) : i \in 1..Len(TokensOf(list)) }

\* A list of full day names, each once, in Monday-to-Sunday order, joined by
\* a comma and a space.
CanonicalList(list) ==
    LET names == Split(list, ",")
    IN  /\ \A i \in 1..Len(names) :
              /\ IsFullName(IF i = 1 THEN names[i] ELSE Tail(names[i]))
              /\ i > 1 => Head(names[i]) = " "
        /\ \A i \in 1..Len(names) : \A j \in 1..Len(names) :
              i < j => CanonicalIndex(Trim(names[i])[1]) <
                       CanonicalIndex(Trim(names[j])[1])

DayValue(row) ==
    IF "Day" \in DOMAIN row THEN row.Day
    ELSE IF "DaysOfWeek" \in DOMAIN row THEN row.DaysOfWeek
    ELSE <<>>

daysOfWeek ==
    <<"Monday", "Tuesday", "Wednesday", "Thursday", "Friday", "Saturday", "Sunday">>

\* new Set(value ? value.split(',').map(d => d.trim()).filter(Boolean) : [])
selectedDays(v) ==
    IF v = <<>> THEN {}
    ELSE LET parts == TrimAndFilter(Split(v, ","))
         IN  { parts[i] : i \in 1..Len(parts) }

newSelectedDays_AddOnly(v, day) == selectedDays(v) \cup {<<day>>}

\* The copy of the set with the day deleted if it has it, added if not.
newSelectedDays(v, day) ==
    IF <<day>> \in selectedDays(v)
    THEN selectedDays(v) \ {<<day>>}
    ELSE selectedDays(v) \cup {<<day>>}

\* daysOfWeek.filter(d => newSelectedDays.has(d)), from index i on.
RECURSIVE orderedSelection(_, _)
orderedSelection(selected, i) ==
    IF i > Len(daysOfWeek) THEN <<>>
    ELSE (IF <<daysOfWeek[i]>> \in selected THEN <<daysOfWeek[i]>> ELSE <<>>)
            \o orderedSelection(selected, i + 1)

\* What handleDayChange hands to onChange.
handleDayChange(v, day) ==
    JoinCommaSpace(orderedSelection(newSelectedDays(v, day), 1))

\* The value prop is any string; the table hands the selector the normalised
\* day value of the row in its window.
ValuesForSelector ==
    Descriptors \cup { normaliseDaysForSelector(d) : d \in Descriptors }

InitSelector ==
    /\ selectorValue \in ValuesForSelector
    /\ reported = <<>>
    /\ toggles = <<>>
    /\ show = <<>>
    /\ date = PointAt(0, 0)
    /\ pc = "done"
    /\ scheduledDays = {}
    /\ result = FALSE
    /\ remembered = <<>>
    /\ NoAnalytics
    /\ NoDataTable
    /\ NoDashboard
    /\ NoAgent

\* A checkbox is clicked.  onChange is the table's handleModalInputChange for
\* the column Day, and the table renders the selector again with the
\* normalised Day of its row.
ToggleDay ==
    /\ \E i \in 1..Len(daysOfWeek) :
          /\ reported' = handleDayChange(selectorValue, daysOfWeek[i])
          /\ toggles' = (IF toggles = <<>> THEN <<>> ELSE <<toggles[Len(toggles)]>>)
                          \o << [day |-> daysOfWeek[i],
                                 found |-> selectedDays(selectorValue)] >>
    /\ selectorValue' = normaliseDaysForSelector(reported')
    /\ UNCHANGED <<matcherVars, analyticsVars, dataTableVars, dashboardVars,
                   agentVars>>

NextSelector == ToggleDay

SpecSelector == InitSelector /\ [][NextSelector]_vars

(***************************************************************************)
(* The toggles of the day selector.                                        *)
(***************************************************************************)
Toggled == toggles # <<>>

lastToggle == toggles[Len(toggles)]

\* The days a set of entries selects: its entries that are day names.
DaysIn(entries) == { d \in Range(fullDaysOfWeek) : <<d>> \in entries }

\* The selection after a click on a day: the day leaves it or joins it.
Flipped(days, day) == IF day \in days THEN days \ {day} ELSE days \cup {day}

\* C21: every toggle reports the selected days as a list in Monday-to-Sunday
\* order without repeats, whatever the order of the incoming value; and
\* after two toggles of the same day in a row, each applied by the parent,
\* the selected days are those from before the first.
C21_ToggleCanonical ==
    /\ Toggled =>
          /\ reported = <<>> \/ CanonicalList(reported)
          /\ ListedNames(reported) =
                { <<d>> : d \in Flipped(DaysIn(lastToggle.found), lastToggle.day) }
    /\ (Len(toggles) = 2 /\ toggles[1].day = toggles[2].day) =>
          DaysIn(selectedDays(selectorValue)) = DaysIn(toggles[1].found)

\* Sunday is ticked on a value that names Monday and Friday, then unticked.
C21_Witness ==
    /\ Len(toggles) = 2
    /\ toggles[1].day = "Sunday" /\ toggles[2].day = "Sunday"
    /\ toggles[1].found = { <<"Friday">>, <<"Monday">> }
    /\ toggles[2].found = { <<"Monday">>, <<"Friday">>, <<"Sunday">> }
    /\ reported = <<"Monday", ",", " ", "Friday">>

(***************************************************************************)
(* The dashboard: navigation, the admin password window, and the effect    *)
(* that navigates once the lock is open.                                   *)
(***************************************************************************)
protectedViews == {"admin", "registrations-list"}

\* The ids of the sidebar's items.
navItems ==
    {"overview", "requests", "registrations", "admin", "news", "local-news",
     "voice-tools", "ai-analyst"}

\* The payload of a click on a referrer in the overview.
ReferrerFilter == [filter |-> [column |-> "ReferredByCode", value |-> "R1"]]

\* The calls of handleSetActiveView the rendered page offers: the sidebar's
\* items, a referrer of the overview, the lock request of the registrations
\* view.
NavigationRequests ==
    { <<id, <<>>>> : id \in navItems }
      \cup (IF activeView = "overview" THEN { <<"registrations", ReferrerFilter>> }
            ELSE {})
      \cup (IF activeView = "registrations" THEN { <<"registrations-list", <<>>>> }
            ELSE {})

Passwords == {"", "admin123", "admin", "Admin123"}

AfterSetActiveView_Unguarded(view, p) ==
    [activeView |-> IF view = "registrations-list" THEN "registrations" ELSE view,
     viewPayload |-> p,
     destinationView |-> destinationView,
     showAdminModal |-> showAdminModal]

\* The state handleSetActiveView(view, p) leaves, in the fields it can set.
AfterSetActiveView(view, p) ==
    IF view \in protectedViews /\ ~isAdminUnlocked
    THEN [activeView |-> activeView,
          viewPayload |-> viewPayload,
          destinationView |-> view,
          showAdminModal |-> TRUE]
    ELSE [activeView |-> IF view = "registrations-list" THEN "registrations" ELSE view,
          viewPayload |-> p,
          destinationView |-> destinationView,
          showAdminModal |-> showAdminModal]

InitDashboard ==
    /\ NoDashboard
    /\ NoSelector
    /\ show = <<>>
    /\ date = PointAt(0, 0)
    /\ pc = "done"
    /\ scheduledDays = {}
    /\ result = FALSE
    /\ remembered = <<>>
    /\ NoAnalytics
    /\ NoDataTable
    /\ NoAgent

otherThanDashboard ==
    <<matcherVars, analyticsVars, dataTableVars, selectorVars, agentVars>>

handleSetActiveView ==
    /\ \E req \in NavigationRequests :
          LET after == AfterSetActiveView(req[1], req[2])
          IN  /\ activeView' = after.activeView
              /\ viewPayload' = after.viewPayload
              /\ destinationView' = after.destinationView
              /\ showAdminModal' = after.showAdminModal
              /\ lastEvent' = <<"navigate", req[1]>>
    /\ UNCHANGED <<isAdminUnlocked, password, passwordError, otherThanDashboard>>

\* The password window is rendered.
ModalRendered == showAdminModal /\ ~isAdminUnlocked

\* The input of the password window.
TypePassword ==
    /\ ModalRendered
    /\ \E pw \in Passwords : password' = pw
    /\ lastEvent' = <<"type">>
    /\ UNCHANGED <<activeView, viewPayload, isAdminUnlocked, showAdminModal,
                   passwordError, destinationView, otherThanDashboard>>

handlePasswordSubmit ==
    /\ ModalRendered
    /\ IF password = "admin123"
       THEN /\ isAdminUnlocked' = TRUE
            /\ showAdminModal' = FALSE
            /\ passwordError' = ""
            /\ password' = ""
       ELSE /\ passwordError' = "Incorrect password."
            /\ UNCHANGED <<isAdminUnlocked, showAdminModal, password>>
    /\ lastEvent' = <<"submit">>
    /\ UNCHANGED <<activeView, viewPayload, destinationView, otherThanDashboard>>

handleCloseModal_KeepDestination ==
    /\ ModalRendered
    /\ showAdminModal' = FALSE
    /\ password' = ""
    /\ passwordError' = ""
    /\ lastEvent' = <<"close">>
    /\ UNCHANGED <<activeView, viewPayload, isAdminUnlocked, destinationView,
                   otherThanDashboard>>

handleCloseModal ==
    /\ ModalRendered
    /\ showAdminModal' = FALSE
    /\ destinationView' = "null"
    /\ password' = ""
    /\ passwordError' = ""
    /\ lastEvent' = <<"close">>
    /\ UNCHANGED <<activeView, viewPayload, isAdminUnlocked, otherThanDashboard>>

\* The effect on [isAdminUnlocked, destinationView, handleSetActiveView]: it
\* navigates with the default payload, then resets the destination.
NavigateEffect ==
    /\ isAdminUnlocked /\ destinationView # "null"
    /\ LET after == AfterSetActiveView(destinationView, <<>>)
       IN  /\ activeView' = after.activeView
           /\ viewPayload' = after.viewPayload
           /\ showAdminModal' = after.showAdminModal
    /\ destinationView' = "null"
    /\ lastEvent' = <<"effect">>
    /\ UNCHANGED <<isAdminUnlocked, password, passwordError, otherThanDashboard>>

NextDashboard ==
    \/ handleSetActiveView
    \/ TypePassword
    \/ handlePasswordSubmit
    \/ handleCloseModal
    \/ NavigateEffect

SpecDashboard == InitDashboard /\ [][NextDashboard]_vars

\* React runs a pending effect after the render that made it pending.
SpecDashboardLive == SpecDashboard /\ WF_vars(NavigateEffect)

(***************************************************************************)
(* The admin lock of the dashboard.                                        *)
(***************************************************************************)
\* The step is a navigation request to a protected view, made while locked.
LockedRequest(view) ==
    /\ lastEvent' = <<"navigate", view>>
    /\ view \in protectedViews
    /\ ~isAdminUnlocked

\* C22: the active view is 'admin' only while admin access is unlocked; a
\* navigation request to 'admin' or 'registrations-list' made while locked
\* leaves the active view and its payload as they were, records the
\* destination and opens the password window.
C22_AdminNeedsUnlock ==
    /\ [](activeView = "admin" => isAdminUnlocked)
    /\ [][\A view \in protectedViews :
             LockedRequest(view) =>
                 /\ activeView' = activeView
                 /\ viewPayload' = viewPayload
                 /\ destinationView' = view
                 /\ showAdminModal']_vars

\* Admin is asked for, locked, from the registrations view opened with a
\* filter.
C22_Witness ==
    /\ lastEvent = <<"navigate", "admin">>
    /\ ~isAdminUnlocked
    /\ activeView = "registrations"
    /\ viewPayload = ReferrerFilter
    /\ destinationView = "admin"
    /\ showAdminModal

\* The view a destination leads to.
TargetOf(view) == IF view = "registrations-list" THEN "registrations" ELSE view

\* The correct password has just been submitted with this destination pending.
UnlockedFor(view) ==
    lastEvent = <<"submit">> /\ isAdminUnlocked /\ destinationView = view

\* The effect has navigated to the destination and cleared it.
ArrivedAt(view) ==
    /\ lastEvent = <<"effect">>
    /\ activeView = TargetOf(view)
    /\ destinationView = "null"

\* C23: once the correct password is submitted with a destination pending,
\* the dashboard eventually shows that destination ('registrations' for
\* 'registrations-list') and clears the pending destination; a wrong
\* password and closing the window neither unlock nor change the active
\* view, and closing clears the pending destination.
C23_UnlockThenNavigate ==
    /\ \A view \in protectedViews : UnlockedFor(view) ~> ArrivedAt(view)
    /\ [][(lastEvent' = <<"submit">> /\ password # "admin123") =>
             (~isAdminUnlocked' /\ activeView' = activeView)]_vars
    /\ [][lastEvent' = <<"close">> =>
             (~isAdminUnlocked' /\ activeView' = activeView
                /\ destinationView' = "null")]_vars

\* The list of registrations was asked for, the lock opened, and the effect
\* has shown the registrations view.
C23_Witness ==
    /\ lastEvent = <<"effect">>
    /\ isAdminUnlocked
    /\ activeView = "registrations"
    /\ destinationView = "null"
    /\ ~showAdminModal

(***************************************************************************)
(* The agent tester: messages are sent for a test user, the agent's answer *)
(* comes back later, sessions are ended by hand or by the cleanup timer.   *)
(***************************************************************************)
SESSION_TIMEOUT_MS == 15 * 60 * 1000

MAX_HISTORY_TURNS == 10

\* The period of the cleanup timer, in ms.
CleanupIntervalMs == 60 * 1000

\* The clock of the model moves in steps of half a period.
TimeStepMs == 30 * 1000

\* Observation starts fourteen minutes after the sessions that exist were
\* last active, and lasts MaxTimeSteps steps.
StartMs == 14 * 60 * 1000

MaxTimeSteps == 6

MaxSends == 2

UserIds == {"user-123", "user-456"}

userTurn(text) == [role |-> "user", text |-> text]

modelTurn == [role |-> "model", text |-> "reply"]

errorTurn ==
    [role |-> "model", text |-> "Sorry, an error occurred while getting a response."]

\* A conversation of n turns so far, the user's and the agent's in turn.
Conversation(n) == [i \in 1..n |-> IF i % 2 = 1 THEN userTurn("hi") ELSE modelTurn]

\* updatedHistory.splice(0, updatedHistory.length - MAX_HISTORY_TURNS), if longer
Spliced(history) ==
    IF Len(history) > MAX_HISTORY_TURNS
    THEN SubSeq(history, Len(history) - MAX_HISTORY_TURNS + 1, Len(history))
    ELSE history

\* new Map(prev).set(userId, session)
MapSet(memory, userId, session) ==
    [id \in DOMAIN memory \cup {userId} |->
        IF id = userId THEN session ELSE memory[id]]

\* new Map(prev), then delete(userId)
MapDelete(memory, userId) == [id \in DOMAIN memory \ {userId} |-> memory[id]]

\* What handleSendMessage stores for the user id of its closure.
AfterSend(memory, userId, text, t) ==
    LET currentSession == IF userId \in DOMAIN memory THEN memory[userId]
                          ELSE [history |-> <<>>, lastActive |-> 0]
        updatedHistory == Spliced(Append(currentSession.history, userTurn(text)))
    IN  MapSet(memory, userId, [history |-> updatedHistory, lastActive |-> t])

AfterResponse_Recreates(memory, userId, turn, t) ==
    LET finalSession == IF userId \in DOMAIN memory THEN memory[userId]
                        ELSE [history |-> <<>>, lastActive |-> 0]
    IN  MapSet(memory, userId,
               [history |-> Append(finalSession.history, turn), lastActive |-> t])

\* The updater of the answer, and of the error reply: the turn is appended to
\* the session of the closure's user id if the map still has one.
AfterResponse(memory, userId, turn, t) ==
    IF userId \in DOMAIN memory
    THEN MapSet(memory, userId,
                [history |-> Append(memory[userId].history, turn),
                 lastActive |-> t])
    ELSE memory

Expired_AtTimeout(session, t) == t - session.lastActive >= SESSION_TIMEOUT_MS

\* now - session.lastActive > SESSION_TIMEOUT_MS
Expired(session, t) == t - session.lastActive > SESSION_TIMEOUT_MS

\* The updater of the cleanup timer.
AfterCleanup(memory, t) ==
    [id \in { u \in DOMAIN memory : ~Expired(memory[u], t) } |-> memory[id]]

\* The sessions and the pending call at the start of observation: none; one
\* user with four exchanges behind; the same with a fifth message sent and
\* not yet answered; two users last active at different times.
AgentStarts ==
    { [memory |-> <<>>, pending |-> <<>>],
      [memory |-> MapSet(<<>>, "user-123",
                         [history |-> Conversation(8), lastActive |-> 0]),
       pending |-> <<>>],
      [memory |-> MapSet(<<>>, "user-123",
                         [history |-> Conversation(9), lastActive |-> 0]),
       pending |-> << [userId |-> "user-123"] >>],
      [memory |-> MapSet(MapSet(<<>>, "user-123",
                                [history |-> Conversation(2), lastActive |-> 0]),
                         "user-456",
                         [history |-> Conversation(2),
                          lastActive |-> CleanupIntervalMs + TimeStepMs]),
       pending |-> <<>>] }

InitAgent ==
    /\ \E start \in AgentStarts :
          /\ sessionMemory = start.memory
          /\ inFlight = start.pending
          /\ isThinking = (start.pending # <<>>)
    /\ activeTestUserId = "user-123"
    /\ testUserInput = ""
    /\ clock = StartMs
    /\ sends = 0
    /\ agentEvent = <<>>
    /\ NoSelector
    /\ NoDashboard
    /\ show = <<>>
    /\ date = PointAt(0, 0)
    /\ pc = "done"
    /\ scheduledDays = {}
    /\ result = FALSE
    /\ remembered = <<>>
    /\ NoAnalytics
    /\ NoDataTable

otherThanAgent ==
    <<matcherVars, analyticsVars, dataTableVars, selectorVars, dashboardVars>>

\* The input of the test user id.
TypeUserId ==
    /\ \E id \in UserIds \ {activeTestUserId} : activeTestUserId' = id
    /\ agentEvent' = <<"typeUserId">>
    /\ UNCHANGED <<sessionMemory, testUserInput, isThinking, inFlight, clock, sends,
                   otherThanAgent>>

\* The input of the message, disabled while the agent is thinking.
TypeMessage ==
    /\ ~isThinking
    /\ \E text \in {"hi", " "} : text # testUserInput /\ testUserInput' = text
    /\ agentEvent' = <<"typeMessage">>
    /\ UNCHANGED <<sessionMemory, activeTestUserId, isThinking, inFlight, clock,
                   sends, otherThanAgent>>

\* handleSendMessage up to its await.
handleSendMessage ==
    /\ testUserInput \notin {"", " "}
    /\ ~isThinking
    /\ sends < MaxSends
    /\ isThinking' = TRUE
    /\ testUserInput' = ""
    /\ sessionMemory' = AfterSend(sessionMemory, activeTestUserId, testUserInput, clock)
    /\ inFlight' = Append(inFlight, [userId |-> activeTestUserId])
    /\ sends' = sends + 1
    /\ agentEvent' = <<"send", activeTestUserId>>
    /\ UNCHANGED <<activeTestUserId, clock, otherThanAgent>>

\* handleSendMessage from its await on: the answer arrives or the call throws.
AgentResponds ==
    /\ \E i \in 1..Len(inFlight) : \E answered \in BOOLEAN :
          /\ sessionMemory' =
                AfterResponse(sessionMemory, inFlight[i].userId,
                              IF answered THEN modelTurn ELSE errorTurn, clock)
          /\ inFlight' = SubSeq(inFlight, 1, i - 1) \o SubSeq(inFlight, i + 1, Len(inFlight))
          /\ agentEvent' = <<"response", inFlight[i].userId, answered>>
    /\ isThinking' = FALSE
    /\ UNCHANGED <<activeTestUserId, testUserInput, clock, sends, otherThanAgent>>

\* The End Session button of a listed session.
handleExpireSession ==
    /\ \E userId \in DOMAIN sessionMemory :
          /\ sessionMemory' = MapDelete(sessionMemory, userId)
          /\ agentEvent' = <<"end", userId>>
    /\ UNCHANGED <<activeTestUserId, testUserInput, isThinking, inFlight, clock,
                   sends, otherThanAgent>>

\* The Reset Session button, disabled while the active user has no history.
handleResetActiveSession ==
    /\ activeTestUserId \in DOMAIN sessionMemory
    /\ Len(sessionMemory[activeTestUserId].history) > 0
    /\ sessionMemory' = MapDelete(sessionMemory, activeTestUserId)
    /\ agentEvent' = <<"reset", activeTestUserId>>
    /\ UNCHANGED <<activeTestUserId, testUserInput, isThinking, inFlight, clock,
                   sends, otherThanAgent>>

\* Half a period passes; at the end of a period the timer's callback runs.
TimePasses ==
    /\ clock < StartMs + MaxTimeSteps * TimeStepMs
    /\ clock' = clock + TimeStepMs
    /\ IF clock' % CleanupIntervalMs = 0
       THEN /\ sessionMemory' = AfterCleanup(sessionMemory, clock')
            /\ agentEvent' = <<"tick">>
       ELSE /\ sessionMemory' = sessionMemory
            /\ agentEvent' = <<"time">>
    /\ UNCHANGED <<activeTestUserId, testUserInput, isThinking, inFlight, sends,
                   otherThanAgent>>

NextAgent ==
    \/ TypeUserId
    \/ TypeMessage
    \/ handleSendMessage
    \/ AgentResponds
    \/ handleExpireSession
    \/ handleResetActiveSession
    \/ TimePasses

SpecAgent == InitAgent /\ [][NextAgent]_vars

(***************************************************************************)
(* The sessions of the agent tester.                                       *)
(***************************************************************************)
\* C24: after any sequence of sent messages and responses, the stored
\* history of every session holds at most MAX_HISTORY_TURNS turns.
C24_HistoryBounded ==
    \A id \in DOMAIN sessionMemory :
        Len(sessionMemory[id].history) <= MAX_HISTORY_TURNS

\* The time of the latest cleanup tick.
LastTickMs == clock - (clock % CleanupIntervalMs)

\* How long a session has been idle at time t.
IdleAt(session, t) == t - session.lastActive

\* The step is a cleanup tick.
IsTick == agentEvent' = <<"tick">>

\* C25: the cleanup runs every 60 seconds; each tick removes exactly the
\* sessions last active more than SESSION_TIMEOUT_MS before it and leaves
\* the others as they are, so no session active within the last 15 minutes
\* is removed by it, and no session is still there that was idle for more
\* than 15 minutes at the latest tick.
C25_SessionsExpire ==
    /\ [][(clock' # clock) =>
             (IsTick <=> clock' % CleanupIntervalMs = 0)]_vars
    /\ [][IsTick =>
             /\ DOMAIN sessionMemory' =
                   { id \in DOMAIN sessionMemory :
                        IdleAt(sessionMemory[id], clock') <= 15 * 60 * 1000 }
             /\ \A id \in DOMAIN sessionMemory' :
                   sessionMemory'[id] = sessionMemory[id]]_vars
    /\ [](\A id \in DOMAIN sessionMemory :
             IdleAt(sessionMemory[id], LastTickMs) <= 15 * 60 * 1000)

\* The tick at sixteen minutes has removed the session idle since the start
\* and left the one last active a minute and a half later.
C25_Witness ==
    /\ agentEvent = <<"tick">>
    /\ clock = 16 * 60 * 1000
    /\ DOMAIN sessionMemory = {"user-456"}
    /\ sessionMemory["user-456"].lastActive = 90 * 1000

\* The step is the arrival of the answer (or of the failure) to a message
\* that this user id sent.
IsResponseTo(id) ==
    /\ Len(agentEvent') = 3
    /\ agentEvent'[1] = "response"
    /\ agentEvent'[2] = id

\* C26: an answer or error reply arriving after its sender's session was
\* removed leaves the session map as it is; otherwise it is appended to the
\* session of the user id that sent the message, whatever the active test
\* user id is by then; and at most one request is in flight at any time.
C26_ResponseToSender ==
    /\ [](Len(inFlight) <= 1)
    /\ [][(Len(agentEvent') = 2 /\ agentEvent'[1] = "send") =>
             /\ agentEvent'[2] = activeTestUserId
             /\ inFlight' = Append(inFlight, [userId |-> activeTestUserId])]_vars
    /\ [][\A id \in UserIds :
             IsResponseTo(id) =>
                 /\ \E i \in 1..Len(inFlight) : inFlight[i].userId = id
                 /\ IF id \in DOMAIN sessionMemory
                    THEN /\ DOMAIN sessionMemory' = DOMAIN sessionMemory
                         /\ sessionMemory'[id].history =
                               Append(sessionMemory[id].history,
                                      IF agentEvent'[3] THEN modelTurn ELSE errorTurn)
                         /\ \A other \in DOMAIN sessionMemory \ {id} :
                               sessionMemory'[other] = sessionMemory[other]
                    ELSE sessionMemory' = sessionMemory]_vars

\* The answer to a message of user-123 has arrived after the cleanup tick at
\* sixteen minutes removed that session, the tester being on user-456 by then.
C26_Witness ==
    /\ agentEvent = <<"response", "user-123", TRUE>>
    /\ clock >= 16 * 60 * 1000
    /\ sends = 0
    /\ activeTestUserId = "user-456"
    /\ sessionMemory = <<>>

====
